---- MODULE Spec2Model ----
(***************************************************************************)
(* Model of ADS-B_GPS_TrinoDB_Analysis.py: the day-by-day extraction,      *)
(* distance augmentation and spreadsheet export of telemetry-gap records.  *)
(* One run of main() is CONNECTING -> PREPARING -> PROCESSING_WINDOW* ->   *)
(* CLOSING -> DONE; every external call (connect, execute, fetchall, the   *)
(* spreadsheet writer, close) either returns or raises.                    *)
(***************************************************************************)
EXTENDS Integers, Sequences, FiniteSets, TLC

VARIABLES
    start_date,   \* module global start_date (naive datetime, seconds of wall clock since 1970-01-01 00:00)
    end_date,     \* module global end_date
    delta,        \* module global delta (timedelta, seconds)
    utcoffset,    \* the host's local UTC offset, which datetime.timestamp() applies to a naive datetime
    remote,       \* the remote store: the result columns of the statement and the kind of data it holds
    pc,           \* position of main()
    current_date, \* local current_date of main()
    cursor,       \* the cursor: "none", "open" or "closed"
    conn,         \* the connection: "none", "open" or "closed"
    log,          \* the logging calls of the current run, in order
    files,        \* the working directory: file name -> content
    run,          \* 1 in the first run of the script, 2 when it is run again
    faults,       \* number of external calls that have raised so far
    passes,       \* history: the loop iterations of the current run, in order
    prev_files,   \* history: the working directory when the latest loop iteration began
    history       \* history: for every finished earlier run, how it ended

vars == <<start_date, end_date, delta, utcoffset, remote, pc, current_date,
          cursor, conn, log, files, run, faults, passes, prev_files, history>>

config == <<start_date, end_date, delta, utcoffset, remote>>

----------------------------------------------------------------------------
(* Bounds of the model *)

\* the configured range end_date - start_date is 1..MaxSpanDays days
MaxSpanDays == 3
\* at most MaxFaults external calls raise in one behaviour
MaxFaults == 2

----------------------------------------------------------------------------
(* datetime, timedelta, timestamp() and strftime('%Y-%m-%d') *)

SecondsPerDay == 86400
SecondsPerHour == SecondsPerDay \div 24

\* days since 1970-01-01 of the proleptic Gregorian date y-m-d
days_from_civil(y, m, d) ==
    LET yy  == IF m <= 2 THEN y - 1 ELSE y
        era == yy \div 400
        yoe == yy - era * 400
        mp  == IF m > 2 THEN m - 3 ELSE m + 9
        doy == (153 * mp + 2) \div 5 + d - 1
        doe == yoe * 365 + yoe \div 4 - yoe \div 100 + doy
    IN  era * 146097 + doe - 719468

\* <<year, month, day>> of the day number z (days since 1970-01-01)
civil_from_days(z) ==
    LET zz  == z + 719468
        era == zz \div 146097
        doe == zz - era * 146097
        yoe == (doe - doe \div 1460 + doe \div 36524 - doe \div 146096) \div 365
        doy == doe - (365 * yoe + yoe \div 4 - yoe \div 100)
        mp  == (5 * doy + 2) \div 153
        d   == doy - (153 * mp + 2) \div 5 + 1
        m   == IF mp < 10 THEN mp + 3 ELSE mp - 9
        y   == yoe + era * 400 + (IF m <= 2 THEN 1 ELSE 0)
    IN  <<y, m, d>>

\* datetime(y, m, d, hour): a naive datetime
datetime(y, m, d, h) == days_from_civil(y, m, d) * SecondsPerDay + h * SecondsPerHour

\* timedelta(days, hours)
timedelta(days, hours) == days * SecondsPerDay + hours * SecondsPerHour

\* int(dt.timestamp()) of a naive datetime: the wall clock read in the host's zone
timestamp(dt) == dt - utcoffset

Pad2(n) == IF n < 10 THEN "0" \o ToString(n) ELSE ToString(n)

Pad4(n) ==
    IF n < 10 THEN "000" \o ToString(n)
    ELSE IF n < 100 THEN "00" \o ToString(n)
    ELSE IF n < 1000 THEN "0" \o ToString(n)
    ELSE ToString(n)

\* dt.strftime('%Y-%m-%d')
strftime(dt) ==
    LET c == civil_from_days(dt \div SecondsPerDay)
    IN  Pad4(c[1]) \o "-" \o Pad2(c[2]) \o "-" \o Pad2(c[3])

----------------------------------------------------------------------------
(* The inputs the model draws *)

StartDates == {datetime(2023, 1, 1, 0), datetime(2023, 12, 30, 12)}

Strides == {timedelta(1, 0), timedelta(1, 12)}

Spans == {timedelta(k, 0) : k \in 1..MaxSpanDays}

\* UTC and US Eastern standard time
UtcOffsets == {0, 0 - 5 * SecondsPerHour}

----------------------------------------------------------------------------
(* Tables: the raw result of the statement and the projected table *)

\* the column list of line 78, in order
CanonicalColumns ==
    <<"icao24", "callsign", "null_start_time", "null_end_time",
      "time_of_previous_not_null_coords", "time_of_next_not_null_coords",
      "previous_latitude", "previous_longitude", "next_latitude", "next_longitude",
      "between_coords_distance_m", "null_duration_seconds",
      "between_coords_duration_seconds", "avg_nic", "min_nic", "max_nic">>

\* two column orders in which the statement may return the 15 source columns
SourceColumns ==
    <<"icao24", "callsign", "null_start_time", "null_end_time",
      "time_of_previous_not_null_coords", "time_of_next_not_null_coords",
      "previous_latitude", "previous_longitude", "next_latitude", "next_longitude",
      "null_duration_seconds", "between_coords_duration_seconds",
      "avg_nic", "min_nic", "max_nic">>

ShuffledColumns ==
    <<"max_nic", "min_nic", "avg_nic", "next_longitude", "next_latitude",
      "previous_longitude", "previous_latitude", "icao24", "callsign",
      "null_duration_seconds", "between_coords_duration_seconds",
      "null_start_time", "null_end_time",
      "time_of_previous_not_null_coords", "time_of_next_not_null_coords">>

Datasets ==
    { [columns |-> SourceColumns,   kind |-> "clean"],
      [columns |-> ShuffledColumns, kind |-> "dirty"],
      [columns |-> ShuffledColumns, kind |-> "sparse"] }

\* the store holds one gap record per day of the range, one hour into the day
NRecords == MaxSpanDays + 2

\* a "sparse" store holds no record of the third day
Present(k) == ~(remote.kind = "sparse" /\ k = 2)

\* gap record k of the store; in a "dirty" store record 1 has a latitude of 91 degrees
GapRecord(k) ==
    LET t == timestamp(start_date) + k * SecondsPerDay + SecondsPerHour
    IN  [ icao24 |-> 4000 + k, callsign |-> 100 + k,
          null_start_time |-> t, null_end_time |-> t + 60,
          time_of_previous_not_null_coords |-> t - 10,
          time_of_next_not_null_coords |-> t + 70,
          previous_latitude |-> IF remote.kind = "dirty" /\ k = 1 THEN 91 ELSE 40,
          previous_longitude |-> 0 - 73,
          next_latitude |-> 40 + k, next_longitude |-> k - 73,
          null_duration_seconds |-> 60, between_coords_duration_seconds |-> 80,
          avg_nic |-> 7, min_nic |-> 6, max_nic |-> 8 ]

RECURSIVE RowsFrom(_, _, _)
RowsFrom(k, lo, hi) ==
    IF k >= NRecords THEN <<>>
    ELSE LET r == GapRecord(k)
             row == [i \in 1..Len(remote.columns) |-> r[remote.columns[i]]]
         IN  (IF Present(k) /\ lo <= r.null_start_time /\ r.null_start_time < hi
              THEN <<row>> ELSE <<>>)
             \o RowsFrom(k + 1, lo, hi)

\* cursor.fetchall() after EXECUTE flight_analysis USING lo, hi: the gap
\* records whose null_start_time lies in [lo, hi), in the store's order
fetchall(lo, hi) == RowsFrom(0, lo, hi)

\* [desc[0] for desc in cursor.description]
description == remote.columns

\* pd.DataFrame(rows, columns=columns)
DataFrame(rows, columns) == [columns |-> columns, rows |-> rows]

HasColumn(columns, name) == \E i \in 1..Len(columns) : columns[i] = name

ColumnIndex(columns, name) == CHOOSE i \in 1..Len(columns) : columns[i] = name

Abs(n) == IF n < 0 THEN 0 - n ELSE n

\* geopy rejects a latitude outside [-90, 90] with ValueError
ValidPoint(p) == Abs(p[1]) <= 90

\* geopy.distance.geodesic(p, q).meters, coarsened to whole degrees: the
\* library's ellipsoidal distance is replaced by 111195 m per degree of
\* separation, which keeps what the pipeline relies on (a number per row)
geodesic(p, q) ==
    LET dlat == Abs(p[1] - q[1])
        dl   == Abs(p[2] - q[2]) % 360
        dlon == IF dl > 180 THEN 360 - dl ELSE dl
    IN  111195 * (dlat + dlon)

Cell(df, row, name) == row[ColumnIndex(df.columns, name)]

calculate_distance(df, row) ==
    geodesic(<<Cell(df, row, "previous_latitude"), Cell(df, row, "previous_longitude")>>,
             <<Cell(df, row, "next_latitude"), Cell(df, row, "next_longitude")>>)

CoordinateColumns ==
    {"previous_latitude", "previous_longitude", "next_latitude", "next_longitude"}

\* the exception calculate_distance raises on one of the rows of df, "" if none
ApplyError(df) ==
    IF df.rows = <<>> THEN ""
    ELSE IF \E c \in CoordinateColumns : ~HasColumn(df.columns, c) THEN "KeyError"
    ELSE IF \E i \in 1..Len(df.rows) :
                \/ ~ValidPoint(<<Cell(df, df.rows[i], "previous_latitude"),
                                 Cell(df, df.rows[i], "previous_longitude")>>)
                \/ ~ValidPoint(<<Cell(df, df.rows[i], "next_latitude"),
                                 Cell(df, df.rows[i], "next_longitude")>>)
         THEN "ValueError"
    ELSE ""

\* df['between_coords_distance_m'] = df.apply(calculate_distance, axis=1)
WithDistance(df) ==
    LET name == "between_coords_distance_m"
        dist(i) == calculate_distance(df, df.rows[i])
    IN  IF HasColumn(df.columns, name)
        THEN [columns |-> df.columns,
              rows |-> [i \in 1..Len(df.rows) |->
                          [df.rows[i] EXCEPT ![ColumnIndex(df.columns, name)] = dist(i)]]]
        ELSE [columns |-> Append(df.columns, name),
              rows |-> [i \in 1..Len(df.rows) |-> Append(df.rows[i], dist(i))]]

\* df[[...]]: the listed columns, in the listed order
SelectColumns(df, names) ==
    [columns |-> names,
     rows |-> [i \in 1..Len(df.rows) |->
                 [j \in 1..Len(names) |-> Cell(df, df.rows[i], names[j])]]]

\* Project with a slip: the column selection of line 78 is missing
Project_NoSelect(rows, columns) ==
    LET df == DataFrame(rows, columns)
        e1 == ApplyError(df)
    IN  IF e1 # "" THEN [err |-> e1, table |-> df]
        ELSE [err |-> "", table |-> WithDistance(df)]

\* lines 73-78: the projected table, or the exception raised on the way
Project(rows, columns) ==
    LET df == DataFrame(rows, columns)
        e1 == ApplyError(df)
        d2 == WithDistance(df)
    IN  IF e1 # "" THEN [err |-> e1, table |-> df]
        ELSE IF \E j \in 1..Len(CanonicalColumns) : ~HasColumn(d2.columns, CanonicalColumns[j])
             THEN [err |-> "KeyError", table |-> d2]
        ELSE [err |-> "", table |-> SelectColumns(d2, CanonicalColumns)]

\* lines 73-78 over all builds. For a frame without rows df.apply calls
\* calculate_distance on a probe row of missing values: when that raises,
\* apply returns a copy of the frame and the assignment of line 77 raises
\* ValueError (a frame of 15 columns set to one column); when it returns a
\* number, apply returns an empty Series and the projection goes through.
ProjectOutcomes(rows, columns) ==
    IF rows = <<>>
    THEN {[err |-> "ValueError", table |-> DataFrame(rows, columns)], Project(rows, columns)}
    ELSE {Project(rows, columns)}

----------------------------------------------------------------------------
(* File names and the working directory *)

\* general_file_name with a slip: both dates are taken from the window's start
general_file_name_SameDate(cur, nxt) ==
    ToString(timestamp(cur)) \o "-" \o ToString(timestamp(nxt)) \o "_"
        \o strftime(cur) \o "_to_" \o strftime(cur) \o ".xlsx"

\* line 81
general_file_name(cur, nxt) ==
    ToString(timestamp(cur)) \o "-" \o ToString(timestamp(nxt)) \o "_"
        \o strftime(cur) \o "_to_" \o strftime(nxt) \o ".xlsx"

\* pd.ExcelWriter(name, mode='w') opens the file for writing: it is created or
\* truncated, and holds no table until the workbook is saved
OpenForWrite(fs, name) ==
    [n \in DOMAIN fs \cup {name} |->
        IF n = name THEN [complete |-> FALSE, table |-> DataFrame(<<>>, <<>>)] ELSE fs[n]]

\* to_excel with a slip: mode='a', the rows are added to those the file holds
to_excel_Append(fs, name, table) ==
    [n \in DOMAIN fs \cup {name} |->
        IF n # name THEN fs[n]
        ELSE IF name \in DOMAIN fs
             THEN [complete |-> TRUE,
                   table |-> [columns |-> table.columns,
                              rows |-> fs[name].table.rows \o table.rows]]
             ELSE [complete |-> TRUE, table |-> table]]

\* lines 82-83 when nothing raises: the file holds the table, header row
\* included, whatever it held before
to_excel(fs, name, table) ==
    [n \in DOMAIN fs \cup {name} |->
        IF n = name THEN [complete |-> TRUE, table |-> table] ELSE fs[n]]

NoFiles == [n \in {} |-> 0]

Entry(level, msg, arg) == [level |-> level, msg |-> msg, arg |-> arg]

----------------------------------------------------------------------------
(* The state after the script is loaded: lines 9-14 *)

Init ==
    /\ start_date \in StartDates
    /\ delta \in Strides
    /\ end_date \in {start_date + s : s \in Spans}
    /\ utcoffset \in UtcOffsets
    /\ remote \in Datasets
    /\ pc = "CONNECTING"
    /\ current_date = start_date
    /\ cursor = "none"
    /\ conn = "none"
    /\ log = <<>>
    /\ files = NoFiles
    /\ run = 1
    /\ faults = 0
    /\ passes = <<>>
    /\ prev_files = NoFiles
    /\ history = <<>>

\* an external call may raise as long as the fault budget lasts
MayRaise == faults < MaxFaults

----------------------------------------------------------------------------
(* CONNECTING: lines 38-43 with connect_to_database, lines 16-31 *)

\* ConnectFails with a slip: the return of line 43 is missing
ConnectFails_NoReturn ==
    /\ pc = "CONNECTING"
    /\ faults < MaxFaults
    /\ \E made \in BOOLEAN : conn' = IF made THEN "open" ELSE "none"
    /\ log' = log \o << Entry("ERROR", "Failed to connect to the database", "connect"),
                        Entry("ERROR", "Could not establish database connection", "connect") >>
    /\ pc' = "PREPARING"
    /\ faults' = faults + 1
    /\ UNCHANGED <<config, current_date, cursor, files, run, passes, prev_files, history>>

\* connect() or conn.cursor() raises: connect_to_database logs and re-raises,
\* main logs again and returns. A connection whose cursor() raised stays open.
ConnectFails ==
    /\ pc = "CONNECTING"
    /\ MayRaise
    /\ \E made \in BOOLEAN : conn' = IF made THEN "open" ELSE "none"
    /\ log' = log \o << Entry("ERROR", "Failed to connect to the database", "connect"),
                        Entry("ERROR", "Could not establish database connection", "connect") >>
    /\ pc' = "FAILED"
    /\ faults' = faults + 1
    /\ UNCHANGED <<config, current_date, cursor, files, run, passes, prev_files, history>>

ConnectSucceeds ==
    /\ pc = "CONNECTING"
    /\ cursor' = "open"
    /\ conn' = "open"
    /\ log' = Append(log, Entry("INFO", "Database connection established successfully.", ""))
    /\ pc' = "PREPARING"
    /\ UNCHANGED <<config, current_date, files, run, faults, passes, prev_files, history>>

----------------------------------------------------------------------------
(* PREPARING: lines 49-58 *)

\* LoopTest with a slip: <= for <
LoopTest_Inclusive(d) == d <= end_date

\* the loop test of line 59 for a window starting at d
LoopTest(d) == d < end_date

\* where main() is once current_date is d: in the loop body or past the loop
AtLoop(d) == IF LoopTest(d) THEN "PROCESSING_WINDOW" ELSE "CLOSING"

PrepareSucceeds ==
    /\ pc = "PREPARING"
    /\ log' = Append(log, Entry("INFO", "SQL statement prepared and executed successfully.", ""))
    /\ current_date' = start_date
    /\ pc' = AtLoop(start_date)
    /\ UNCHANGED <<config, cursor, conn, files, run, faults, passes, prev_files, history>>

\* cursor.execute raises; the handler closes the cursor and the connection
\* outside any try, so a close that raises leaves main() by an exception
PrepareFails ==
    /\ pc = "PREPARING"
    /\ MayRaise
    /\ log' = Append(log, Entry("ERROR", "Failed to prepare the SQL statement", "execute"))
    /\ \E closing \in {"ok", "cursor", "conn"} :
          /\ closing # "ok" => faults + 1 < MaxFaults
          /\ cursor' = IF closing = "cursor" THEN "open" ELSE "closed"
          /\ conn' = IF closing = "ok" THEN "closed" ELSE "open"
          /\ pc' = IF closing = "ok" THEN "FAILED" ELSE "UNCAUGHT"
          /\ faults' = faults + (IF closing = "ok" THEN 1 ELSE 2)
    /\ UNCHANGED <<config, current_date, files, run, passes, prev_files, history>>

----------------------------------------------------------------------------
(* PROCESSING_WINDOW: one iteration of the loop, lines 59-91 *)

\* next_date with a slip: the window's end is clamped to end_date
next_date_Clamped ==
    IF current_date + delta > end_date THEN end_date ELSE current_date + delta

next_date == current_date + delta

current_unix_time == timestamp(current_date)

next_unix_time == timestamp(next_date)

\* execute_statement with a slip: the two values change places
execute_statement_Swapped ==
    "EXECUTE flight_analysis USING " \o ToString(next_unix_time) \o ", "
        \o ToString(current_unix_time)

\* lines 66-68: the two epochs are formatted into the text of the statement
execute_statement ==
    "EXECUTE flight_analysis USING " \o ToString(current_unix_time) \o ", "
        \o ToString(next_unix_time)

\* line 71: cursor.execute is given the text alone, and no bound parameters
execute_params == <<>>

\* the history record of the iteration
Pass(outcome) ==
    [start |-> current_date, end |-> next_date,
     lo |-> current_unix_time, hi |-> next_unix_time, outcome |-> outcome,
     statement |-> execute_statement, params |-> execute_params]

\* Advance with a slip: a window that failed ends the loop
Advance_AbortOnFailure(outcome) ==
    /\ current_date' = next_date
    /\ pc' = IF outcome = "ok" THEN (IF next_date < end_date THEN "PROCESSING_WINDOW" ELSE "CLOSING")
             ELSE "CLOSING"
    /\ passes' = Append(passes, Pass(outcome))
    /\ prev_files' = files

\* line 91 and the loop test that follows it
Advance(outcome) ==
    /\ current_date' = next_date
    /\ pc' = AtLoop(next_date)
    /\ passes' = Append(passes, Pass(outcome))
    /\ prev_files' = files

WindowPre == pc = "PROCESSING_WINDOW" /\ cursor = "open"

\* WindowError with a slip: the failure is logged twice, as connect_to_database and main do
WindowError_Twice(cause) ==
    log \o << Entry("ERROR", "Failed during SQL execution or file operation", cause),
               Entry("ERROR", "Failed during SQL execution or file operation", cause) >>

WindowError(cause) ==
    Append(log, Entry("ERROR", "Failed during SQL execution or file operation", cause))

\* cursor.execute or cursor.fetchall raises (lines 71-72)
WindowQueryFails ==
    /\ WindowPre
    /\ MayRaise
    /\ log' = WindowError("execute")
    /\ faults' = faults + 1
    /\ Advance("query")
    /\ UNCHANGED <<config, cursor, conn, files, run, history>>

\* the distance computation or the column selection raises (lines 74-78)
WindowProjectionFails ==
    /\ WindowPre
    /\ \E p \in ProjectOutcomes(fetchall(current_unix_time, next_unix_time), description) :
          /\ p.err # ""
          /\ log' = WindowError(p.err)
    /\ Advance("projection")
    /\ UNCHANGED <<config, cursor, conn, files, run, faults, history>>

\* the spreadsheet writer raises (lines 82-83): either before it has opened
\* the file, or after, when the file is already created or truncated
WindowExportFails ==
    /\ WindowPre
    /\ MayRaise
    /\ Project(fetchall(current_unix_time, next_unix_time), description).err = ""
    /\ \E opened \in BOOLEAN :
          files' = IF opened
                   THEN OpenForWrite(files, general_file_name(current_date, next_date))
                   ELSE files
    /\ log' = WindowError("ExcelWriter")
    /\ faults' = faults + 1
    /\ Advance("export")
    /\ UNCHANGED <<config, cursor, conn, run, history>>

\* nothing raises: the file is written and the success is logged (lines 71-85)
WindowSucceeds ==
    /\ WindowPre
    /\ LET p == Project(fetchall(current_unix_time, next_unix_time), description)
           name == general_file_name(current_date, next_date)
       IN  /\ p.err = ""
           /\ files' = to_excel(files, name, p.table)
           /\ log' = Append(log, Entry("INFO", "Data written to", name))
    /\ Advance("ok")
    /\ UNCHANGED <<config, cursor, conn, run, faults, history>>

----------------------------------------------------------------------------
(* CLOSING: lines 93-98 *)

CloseSucceeds ==
    /\ pc = "CLOSING"
    /\ cursor' = "closed"
    /\ conn' = "closed"
    /\ pc' = "DONE"
    /\ UNCHANGED <<config, current_date, log, files, run, faults, passes, prev_files, history>>

\* CloseFails with a slip: the handler logs and re-raises, as connect_to_database does
CloseFails_Reraise ==
    /\ pc = "CLOSING"
    /\ faults < MaxFaults
    /\ \E call \in {"cursor", "conn"} :
          /\ cursor' = IF call = "cursor" THEN cursor ELSE "closed"
          /\ log' = Append(log, Entry("ERROR", "Failed to close database connection", call))
    /\ conn' = conn
    /\ pc' = "UNCAUGHT"
    /\ faults' = faults + 1
    /\ UNCHANGED <<config, current_date, files, run, passes, prev_files, history>>

\* cursor.close() raises, and conn.close() is skipped; or conn.close() raises
CloseFails ==
    /\ pc = "CLOSING"
    /\ MayRaise
    /\ \E call \in {"cursor", "conn"} :
          /\ cursor' = IF call = "cursor" THEN cursor ELSE "closed"
          /\ log' = Append(log, Entry("ERROR", "Failed to close database connection", call))
    /\ conn' = conn
    /\ pc' = "DONE"
    /\ faults' = faults + 1
    /\ UNCHANGED <<config, current_date, files, run, passes, prev_files, history>>

----------------------------------------------------------------------------
(* The script is run again on the same working directory: lines 100-101 *)

Finished == pc \in {"DONE", "FAILED", "UNCAUGHT"}

Rerun ==
    /\ Finished
    /\ run = 1
    /\ history' = Append(history, [pc |-> pc, files |-> files, passes |-> passes])
    /\ run' = run + 1
    /\ pc' = "CONNECTING"
    /\ current_date' = start_date
    /\ cursor' = "none"
    /\ conn' = "none"
    /\ log' = <<>>
    /\ passes' = <<>>
    /\ prev_files' = files
    /\ UNCHANGED <<config, files, faults>>

Next ==
    \/ ConnectFails
    \/ ConnectSucceeds
    \/ PrepareSucceeds
    \/ PrepareFails
    \/ WindowQueryFails
    \/ WindowProjectionFails
    \/ WindowExportFails
    \/ WindowSucceeds
    \/ CloseSucceeds
    \/ CloseFails
    \/ Rerun

Spec == Init /\ [][Next]_vars

----------------------------------------------------------------------------
(* What the claims are stated with *)

\* ceil((end_date - start_date) / delta)
WindowCount == (end_date - start_date + delta - 1) \div delta

\* the full window sequence of the configured range
WindowSequence ==
    [i \in 1..WindowCount |->
        [start |-> start_date + (i - 1) * delta, end |-> start_date + i * delta]]

\* the windows the current run has attempted so far
Attempted == [i \in 1..Len(passes) |-> [start |-> passes[i].start, end |-> passes[i].end]]

InLoopOrLater == pc \in {"PROCESSING_WINDOW", "CLOSING", "DONE"}

PastLoop == pc \in {"CLOSING", "DONE"}

\* the file name the format of the specification gives a window
ClaimedName(p) ==
    ToString(p.lo) \o "-" \o ToString(p.hi) \o "_" \o strftime(p.start)
        \o "_to_" \o strftime(p.end) \o ".xlsx"

\* the table a window's file is to hold
ClaimedTable(p) == Project(fetchall(p.lo, p.hi), description).table

\* the working directory when the current run began
StartFiles == IF run = 1 THEN NoFiles ELSE history[1].files

\* file name n is the same in directories a and b: absent in both, or equal content
SameFile(a, b, n) ==
    /\ (n \in DOMAIN a) = (n \in DOMAIN b)
    /\ n \in DOMAIN a => a[n] = b[n]

\* the log entry of loop iteration i: two entries precede the loop
PassEntry(i) == log[2 + i]

Outcomes(ps) == {ps[i].outcome : i \in 1..Len(ps)}

----------------------------------------------------------------------------
(* The claims *)

\* C1: per-window failure isolation. Whatever windows have failed, at
\* whatever stage, the windows attempted so far are a prefix of the full
\* window sequence with a later window still to come while main() is in the
\* loop, they are the full sequence once it is past the loop, and no failure
\* of a window leaves main() by an exception.
C1_FailureIsolation ==
    /\ InLoopOrLater =>
          /\ Len(passes) <= WindowCount
          /\ Attempted = SubSeq(WindowSequence, 1, Len(passes))
    /\ pc = "PROCESSING_WINDOW" => Len(passes) < WindowCount
    /\ PastLoop => Attempted = WindowSequence
    /\ pc \in {"UNCAUGHT", "FAILED"} => passes = <<>>

\* a finished run of three windows that failed at the query, at the
\* projection and at the export
C1_Witness ==
    /\ pc = "DONE"
    /\ Len(passes) = 3
    /\ Outcomes(passes) = {"query", "projection", "export"}

\* C2: a window whose query raised has exactly one log entry, an ERROR, its
\* file is as it was when the run began, and every later window that
\* succeeded has its file written.
C2_QueryFailure ==
    InLoopOrLater =>
        /\ Len(log) >= 2 + Len(passes)
        /\ pc # "DONE" => Len(log) = 2 + Len(passes)
        /\ pc = "DONE" => Len(log) <= 3 + Len(passes)
        /\ \A i \in 1..Len(passes) :
              passes[i].outcome = "query" =>
                 /\ PassEntry(i).level = "ERROR"
                 /\ SameFile(files, StartFiles, ClaimedName(passes[i]))
                 /\ \A j \in (i + 1)..Len(passes) :
                       passes[j].outcome = "ok" =>
                          /\ ClaimedName(passes[j]) \in DOMAIN files
                          /\ files[ClaimedName(passes[j])] =
                                [complete |-> TRUE, table |-> ClaimedTable(passes[j])]

\* the first run: the query of a window raised, no file of that window
\* exists, and a later window succeeded
C2_Witness ==
    /\ pc = "DONE"
    /\ run = 1
    /\ \E i \in 1..Len(passes) : \E j \in (i + 1)..Len(passes) :
          /\ passes[i].outcome = "query"
          /\ ClaimedName(passes[i]) \notin DOMAIN files
          /\ passes[j].outcome = "ok"

\* C3: a run that has left CONNECTING without a cursor is in FAILED, has
\* logged an error, has not prepared the statement (its log holds no INFO
\* entry), has processed no window and has written no file.
C3_ConnectFailure ==
    (pc # "CONNECTING" /\ cursor = "none") =>
        /\ pc = "FAILED"
        /\ log # <<>>
        /\ \A i \in 1..Len(log) : log[i].level = "ERROR"
        /\ passes = <<>>
        /\ files = StartFiles

\* the connection could not be acquired, in a run that found files of an earlier run
C3_Witness ==
    /\ pc = "FAILED"
    /\ cursor = "none"
    /\ run = 2
    /\ files # NoFiles

PrepareFailed ==
    /\ log # <<>>
    /\ log[Len(log)].msg = "Failed to prepare the SQL statement"

\* C4: once registering the statement has failed, the run is in FAILED with
\* the cursor and the connection closed, and has processed no window.
C4_PrepareFailureReleases ==
    PrepareFailed =>
        /\ pc = "FAILED"
        /\ cursor = "closed"
        /\ conn = "closed"
        /\ passes = <<>>

\* C5: a run that got past PREPARING and has finished has closed the cursor
\* and the connection.
C5_ReleasedAfterLastWindow ==
    pc = "DONE" => cursor = "closed" /\ conn = "closed"

\* C6: CLOSING always ends in DONE, never in an exception that leaves
\* main(); when a close call raised, so that the cursor or the connection is
\* not closed, the failure is the ERROR entry added to the log.
C6_TeardownFailureLogged ==
    [][pc = "CLOSING" =>
          /\ pc' = "DONE"
          /\ (cursor' # "closed" \/ conn' # "closed") =>
                /\ Len(log') = Len(log) + 1
                /\ log'[Len(log')].level = "ERROR"
                /\ log'[Len(log')].msg = "Failed to close database connection"]_vars

\* a finished run whose cursor.close() raised
C6_Witness ==
    /\ pc = "DONE"
    /\ cursor = "open"
    /\ log[Len(log)].msg = "Failed to close database connection"

\* C7: the windows processed start at start_date, each is delta long, each
\* starts where the one before it ends (as datetimes and as epoch seconds),
\* every one starts before end_date, and once the loop is over they reach
\* end_date and are ceil((end_date - start_date) / delta) in number.
C7_WindowsPartitionRange ==
    InLoopOrLater =>
        /\ \A i \in 1..Len(passes) :
              /\ passes[i].start < passes[i].end
              /\ passes[i].start < end_date
              /\ i = 1 => passes[i].start = start_date
              /\ i > 1 => /\ passes[i].start = passes[i - 1].end
                          /\ passes[i].lo = passes[i - 1].hi
                          /\ passes[i].start > passes[i - 1].start
        /\ PastLoop =>
              /\ passes # <<>>
              /\ passes[Len(passes)].end >= end_date
              /\ Len(passes) * delta >= end_date - start_date
              /\ (Len(passes) - 1) * delta < end_date - start_date

\* a finished run whose range is no multiple of the stride: the last window
\* runs past end_date
C7_Witness ==
    /\ pc = "DONE"
    /\ Len(passes) = 2
    /\ passes[2].end > end_date

ScenarioName1 == "1672531200-1672617600_2023-01-01_to_2023-01-02.xlsx"

ScenarioName2 == "1672617600-1672704000_2023-01-02_to_2023-01-03.xlsx"

Scenario ==
    /\ start_date = datetime(2023, 1, 1, 0)
    /\ end_date = datetime(2023, 1, 3, 0)
    /\ delta = timedelta(1, 0)
    /\ utcoffset = 0

CleanRun(ps) == ps # <<>> /\ Outcomes(ps) = {"ok"}

\* C9: when the script has run twice with no failure in either run, the
\* working directory after the second run is the one the first run left:
\* the same file names, each holding the same table.
C9_RerunIdempotent ==
    (/\ run = 2
     /\ pc = "DONE"
     /\ CleanRun(passes)
     /\ history[1].pc = "DONE"
     /\ CleanRun(history[1].passes)) =>
        /\ DOMAIN files = DOMAIN history[1].files
        /\ files = history[1].files
        /\ \A n \in DOMAIN files : files[n].complete

\* two clean runs of three windows, every file holding rows
C9_Witness ==
    /\ run = 2
    /\ pc = "DONE"
    /\ CleanRun(passes)
    /\ CleanRun(history[1].passes)
    /\ Cardinality(DOMAIN files) = 3
    /\ \A n \in DOMAIN files : files[n].table.rows # <<>>

\* C10: once a pass is over, either the window succeeded and its file holds
\* the complete projected table, or it failed and its file is as it was
\* before the pass.
C10_WindowAtomic ==
    (InLoopOrLater /\ passes # <<>>) =>
        LET p == passes[Len(passes)]
            name == ClaimedName(p)
        IN  IF p.outcome = "ok"
            THEN /\ name \in DOMAIN files
                 /\ files[name] = [complete |-> TRUE, table |-> ClaimedTable(p)]
            ELSE SameFile(files, prev_files, name)

\* C11: every processed window has exactly one log entry, a success entry
\* carrying its file name or an ERROR entry, and the entry tells which window
\* it is about: no two windows of a run have the same entry.
C11_LogIdentifiesWindows ==
    InLoopOrLater =>
        /\ Len(log) >= 2 + Len(passes)
        /\ pc # "DONE" => Len(log) = 2 + Len(passes)
        /\ \A i \in 1..Len(passes) :
              IF passes[i].outcome = "ok"
              THEN PassEntry(i) = Entry("INFO", "Data written to", ClaimedName(passes[i]))
              ELSE PassEntry(i).level = "ERROR"
        /\ \A i, j \in 1..Len(passes) : i # j => PassEntry(i) # PassEntry(j)

\* the output schema of the specification
ClaimedColumns ==
    <<"icao24", "callsign", "null_start_time", "null_end_time",
      "time_of_previous_not_null_coords", "time_of_next_not_null_coords",
      "previous_latitude", "previous_longitude", "next_latitude", "next_longitude",
      "between_coords_distance_m", "null_duration_seconds",
      "between_coords_duration_seconds", "avg_nic", "min_nic", "max_nic">>

\* C12: the table written for a window that succeeded has the 16 canonical
\* columns in the canonical order, between_coords_distance_m in 11th
\* position, and as many rows as the query returned, in the same order:
\* row r holds, under every source column, the value of raw row r.
C12_ProjectionShape ==
    InLoopOrLater =>
        \A i \in 1..Len(passes) :
            passes[i].outcome = "ok" =>
                LET t   == files[ClaimedName(passes[i])].table
                    raw == fetchall(passes[i].lo, passes[i].hi)
                IN  /\ t.columns = ClaimedColumns
                    /\ Len(t.columns) = 16
                    /\ t.columns[11] = "between_coords_distance_m"
                    /\ Len(t.rows) = Len(raw)
                    /\ \A r \in 1..Len(raw) :
                          /\ Len(t.rows[r]) = 16
                          /\ \A c \in 1..Len(description) :
                                t.rows[r][ColumnIndex(ClaimedColumns, description[c])] = raw[r][c]

\* a window of two rows, returned in another column order, was written
C12_Witness ==
    /\ pc = "DONE"
    /\ description = ShuffledColumns
    /\ \E i \in 1..Len(passes) :
          /\ passes[i].outcome = "ok"
          /\ Len(files[ClaimedName(passes[i])].table.rows) = 2

\* C13: the text submitted for execution is the same for every window, and
\* the window's two epochs are passed as bound parameters.
C13_BoundParameters ==
    \A i, j \in 1..Len(passes) :
        /\ passes[i].statement = passes[j].statement
        /\ passes[i].params = <<passes[i].lo, passes[i].hi>>

MachineStates ==
    {"CONNECTING", "PREPARING", "PROCESSING_WINDOW", "CLOSING", "DONE", "FAILED"}

MachineSteps ==
    { <<"CONNECTING", "PREPARING">>, <<"CONNECTING", "FAILED">>,
      <<"PREPARING", "PROCESSING_WINDOW">>, <<"PREPARING", "CLOSING">>,
      <<"PREPARING", "FAILED">>,
      <<"PROCESSING_WINDOW", "PROCESSING_WINDOW">>, <<"PROCESSING_WINDOW", "CLOSING">>,
      <<"CLOSING", "DONE">> }

Prepared(l) == {i \in 1..Len(l) : l[i].msg = "SQL statement prepared and executed successfully."}

\* C15: every step of a run is a step of the state machine CONNECTING ->
\* PREPARING -> PROCESSING_WINDOW* -> CLOSING -> DONE, with FAILED entered
\* from CONNECTING or PREPARING only; a window is processed only in
\* PROCESSING_WINDOW, after the statement has been registered, which
\* happens once.
C15_StateMachine ==
    [][run' = run =>
          /\ <<pc, pc'>> \in MachineSteps
          /\ passes' # passes =>
                /\ pc = "PROCESSING_WINDOW"
                /\ Cardinality(Prepared(log)) = 1
          /\ Cardinality(Prepared(log')) <= 1]_vars

\* C16: the statement of every window is executed with two values, the
\* epoch of the window's start and then the epoch of its end, the end being
\* the start plus delta; the file name of a window that succeeded carries
\* the same two values; and the first value of a window is the second value
\* of the window before it.
C16_StatementParameters ==
    InLoopOrLater =>
        \A i \in 1..Len(passes) :
            LET p == passes[i]
                a == timestamp(p.start)
                b == timestamp(p.start + delta)
            IN  /\ p.statement =
                      "EXECUTE flight_analysis USING " \o ToString(a) \o ", " \o ToString(b)
                /\ p.outcome = "ok" =>
                      PassEntry(i).arg =
                          ToString(a) \o "-" \o ToString(b) \o "_" \o strftime(p.start)
                              \o "_to_" \o strftime(p.start + delta) \o ".xlsx"
                /\ i > 1 => a = timestamp(passes[i - 1].start + delta)

\* a finished run of three windows that all succeeded
C16_Witness ==
    /\ pc = "DONE"
    /\ Len(passes) = 3
    /\ Outcomes(passes) = {"ok"}

Uneven == (end_date - start_date) % delta # 0

\* C17: every processed window starts before end_date and ends exactly
\* delta after its start; when the range is no multiple of delta, the last
\* window ends after end_date, its query runs to an epoch past that of
\* end_date, and so does the name of its file when it succeeded.
C17_EndsNotClamped ==
    InLoopOrLater =>
        /\ \A i \in 1..Len(passes) :
              /\ passes[i].start < end_date
              /\ passes[i].end = passes[i].start + delta
              /\ passes[i].hi = timestamp(passes[i].start + delta)
        /\ (PastLoop /\ Uneven) =>
              LET p == passes[Len(passes)]
              IN  /\ p.end > end_date
                  /\ p.hi > timestamp(end_date)
                  /\ p.outcome = "ok" =>
                        /\ ClaimedName(p) \in DOMAIN files
                        /\ PassEntry(Len(passes)).arg = ClaimedName(p)

\* a range that is no multiple of the stride, the last window written
C17_Witness ==
    /\ pc = "DONE"
    /\ Uneven
    /\ passes[Len(passes)].outcome = "ok"
    /\ passes[Len(passes)].end > end_date
    /\ ClaimedName(passes[Len(passes)]) \in DOMAIN files

\* main() has a statement left to execute
Running == pc \in {"CONNECTING", "PREPARING", "PROCESSING_WINDOW", "CLOSING"}

\* C18: a run that is no longer running has ended in DONE or FAILED, and
\* the loop has advanced current_date by delta once per iteration, failed
\* or not, so that it makes no more iterations than the range has windows.
C18_Terminates ==
    /\ Running \/ pc \in {"DONE", "FAILED"}
    /\ InLoopOrLater =>
          /\ current_date = start_date + Len(passes) * delta
          /\ Len(passes) <= WindowCount

\* C19: a window whose query returned no rows, and whose export did not
\* raise, succeeded: its file holds the 16 canonical columns and no rows,
\* and its log entry is the success entry.
C19_EmptyWindowSucceeds ==
    InLoopOrLater =>
        \A i \in 1..Len(passes) :
            (/\ fetchall(passes[i].lo, passes[i].hi) = <<>>
             /\ passes[i].outcome \notin {"query", "export"}) =>
                /\ passes[i].outcome = "ok"
                /\ ClaimedName(passes[i]) \in DOMAIN files
                /\ files[ClaimedName(passes[i])] =
                      [complete |-> TRUE, table |-> DataFrame(<<>>, ClaimedColumns)]
                /\ PassEntry(i).level = "INFO"

====
